---------------------------- MODULE Spec2Model ----------------------------
(***************************************************************************)
(* A model of biometric.py: the ingestion of the three csv files into an   *)
(* sqlite store, the per-group summary tables and the min-max normalised   *)
(* summary tables.                                                         *)
(*                                                                         *)
(* The store is one value, db: the tables that exist (their column names   *)
(* and their rows in rowid order) and the indexes that exist.  Every       *)
(* function of biometric.py is an operator from a store to a store and an  *)
(* error; every call of the three top-level functions is one action, and   *)
(* pc is the place of the running top-level function between two calls.    *)
(*                                                                         *)
(* REAL values are exact rationals <<n, d>> with d > 0 in lowest terms,    *)
(* and the SQL NULL is the pair <<0, 0>>.  The decimal text numpy's        *)
(* str.format writes for a coefficient denotes the rational it was written *)
(* from: floating-point rounding is outside the model.  The source is      *)
(* Python 2 (line 201 slices the list zip returns).                        *)
(***************************************************************************)
EXTENDS Integers, Sequences, FiniteSets, TLC

VARIABLES db, csv, pc, err, log, norm_columns

vars == <<db, csv, pc, err, log, norm_columns>>

-----------------------------------------------------------------------------
(* Bounds of the model.                                                    *)

MaxTrainRows == 3

MaxTestRows == 1

MaxCsvRows == 2

-----------------------------------------------------------------------------
(* Exact arithmetic on REAL values.                                        *)

NULL == <<0, 0>>

Abs(n) == IF n < 0 THEN -n ELSE n

RECURSIVE GCD(_, _)
GCD(a, b) == IF b = 0 THEN a ELSE GCD(b, a % b)

Rat(n, d) ==
    LET g == GCD(Abs(n), d) IN <<n \div g, d \div g>>

Real(i) == <<i, 1>>

RAdd(a, b) == Rat(a[1] * b[2] + b[1] * a[2], a[2] * b[2])

RSub(a, b) == Rat(a[1] * b[2] - b[1] * a[2], a[2] * b[2])

RMul(a, b) == Rat(a[1] * b[1], a[2] * b[2])

RLe(a, b) == a[1] * b[2] <= b[1] * a[2]

(* sqlite's "/" on REAL operands: a zero divisor gives NULL, and NULL      *)
(* operands give NULL.                                                     *)
SqlDiv(a, b) ==
    IF a = NULL \/ b = NULL \/ b[1] = 0 THEN NULL
    ELSE IF b[1] < 0 THEN Rat(-(a[1] * b[2]), -(a[2] * b[1]))
    ELSE Rat(a[1] * b[2], a[2] * b[1])

SqlSub(a, b) == IF a = NULL \/ b = NULL THEN NULL ELSE RSub(a, b)

-----------------------------------------------------------------------------
(* Sequences.                                                              *)

Range(s) == {s[i] : i \in DOMAIN s}

SeqsUpTo(S, n) == UNION {[1..k -> S] : k \in 0..n}

RECURSIVE SumSeq(_)
SumSeq(s) == IF s = <<>> THEN 0 ELSE Head(s) + SumSeq(Tail(s))

MinOf(S) == CHOOSE m \in S : \A x \in S : m <= x

MaxOf(S) == CHOOSE m \in S : \A x \in S : x <= m

RECURSIVE SortedSeq(_)
SortedSeq(S) ==
    IF S = {} THEN <<>> ELSE <<MinOf(S)>> \o SortedSeq(S \ {MinOf(S)})

-----------------------------------------------------------------------------
(* The store.  db.tables maps the name of every table that exists to its   *)
(* column names and its rows (in rowid order; a row maps column names to   *)
(* values); db.indexes holds the indexes that exist.                       *)

EmptyDb == [tables |-> <<>>, indexes |-> {}]

HasTable(d, table) == table \in DOMAIN d.tables

HasColumns(d, table, names) ==
    HasTable(d, table) /\ names \subseteq Range(d.tables[table].cols)

PutTable(d, table, t) ==
    [d EXCEPT !.tables =
        [n \in DOMAIN d.tables \cup {table} |->
            IF n = table THEN t ELSE d.tables[n]]]

(* DROP TABLE IF EXISTS: the table goes, and sqlite drops its indexes      *)
(* with it.                                                                *)
DropTable(d, table) ==
    [tables  |-> [n \in DOMAIN d.tables \ {table} |-> d.tables[n]],
     indexes |-> {i \in d.indexes : i.table # table}]

(* INSERT INTO table: the rows are added after those the table holds.      *)
InsertRows(d, table, rows) ==
    PutTable(d, table, [d.tables[table] EXCEPT !.rows = @ \o rows])

ColNames(columns) == [i \in DOMAIN columns |-> columns[i][1]]

summary_columns ==
    << <<"range", "REAL", "MAX(d)-MIN(d)">>,
       <<"min", "REAL", "MIN(d)">>,
       <<"max", "REAL", "MAX(d)">>,
       <<"avg", "REAL", "AVG(d)">>,
       <<"variance", "REAL", "AVG(d*d)-AVG(d)*AVG(d)">> >>

(* A create_table that leaves an existing table as it is (CREATE TABLE IF  *)
(* NOT EXISTS and no DROP).                                                *)
create_table_no_drop(d, columns, table) ==
    IF HasTable(d, table) THEN d
    ELSE PutTable(d, table, [cols |-> ColNames(columns), rows |-> <<>>])

(* create_table: drop, create, and a DELETE that finds no row in the       *)
(* table just created.                                                     *)
create_table(d, columns, table) ==
    LET created == PutTable(DropTable(d, table), table,
                            [cols |-> ColNames(columns), rows |-> <<>>])
        c0 == columns[1][1]
        kept == SelectSeq(created.tables[table].rows,
                          LAMBDA r : ~(r[c0] = r[c0]))
    IN  PutTable(created, table, [cols |-> ColNames(columns), rows |-> kept])

-----------------------------------------------------------------------------
(* The summary tables.                                                     *)

(* An inner SELECT that forgets to square Z.                               *)
Magnitudes_z_unsquared(rows, key) ==
    [i \in DOMAIN rows |->
        [d   |-> rows[i].X * rows[i].X + rows[i].Y * rows[i].Y + rows[i].Z,
         key |-> rows[i][key]]]

(* The inner SELECT of create_summary_table: d and the key of every row.   *)
Magnitudes(rows, key) ==
    [i \in DOMAIN rows |->
        [d   |-> rows[i].X * rows[i].X + rows[i].Y * rows[i].Y
                 + rows[i].Z * rows[i].Z,
         key |-> rows[i][key]]]

DValues(mags, k) ==
    LET g == SelectSeq(mags, LAMBDA m : m.key = k)
    IN  [i \in DOMAIN g |-> g[i].d]

(* sqlite's aggregates over the d values of one group (never empty).       *)
SqlAgg(expr, ds) ==
    LET n    == Len(ds)
        mn   == MinOf(Range(ds))
        mx   == MaxOf(Range(ds))
        avg  == Rat(SumSeq(ds), n)
        avg2 == Rat(SumSeq([i \in DOMAIN ds |-> ds[i] * ds[i]]), n)
    IN  CASE expr = "MAX(d)-MIN(d)" -> RSub(Real(mx), Real(mn))
          [] expr = "MIN(d)" -> Real(mn)
          [] expr = "MAX(d)" -> Real(mx)
          [] expr = "AVG(d)" -> avg
          [] expr = "AVG(d*d)-AVG(d)*AVG(d)" -> RSub(avg2, RMul(avg, avg))

ExprOf(columns, name) ==
    columns[CHOOSE i \in DOMAIN columns : columns[i][1] = name][3]

(* GROUP BY key: one row per key, in key order.                            *)
GroupRows(mags, columns, key) ==
    LET ks    == SortedSeq({mags[i].key : i \in DOMAIN mags})
        names == Range(ColNames(columns))
    IN  [j \in DOMAIN ks |->
            [c \in names \cup {key} |->
                IF c = key THEN ks[j]
                ELSE SqlAgg(ExprOf(columns, c), DValues(mags, ks[j]))]]

create_summary_table(d, source_table, table, columns, key) ==
    LET cols == columns \o << <<key, "INTEGER">> >>
        d1   == create_table(d, cols, table)
    IN  IF ~HasColumns(d1, source_table, {"X", "Y", "Z", key})
        THEN [db |-> d1, err |-> "OperationalError"]
        ELSE [db  |-> InsertRows(d1, table,
                         GroupRows(
                             Magnitudes(d1.tables[source_table].rows, key),
                             columns, key)),
              err |-> "none"]

-----------------------------------------------------------------------------
(* The normalised tables.                                                  *)

RMin(S) == CHOOSE m \in S : \A x \in S : RLe(m, x)

RMax(S) == CHOOSE m \in S : \A x \in S : RLe(x, m)

(* zip(a, b): as long as the shorter of the two.                           *)
Zip2(a, b) ==
    [i \in 1..(IF Len(a) <= Len(b) THEN Len(a) ELSE Len(b)) |-> <<a[i], b[i]>>]

(* s[:-1]                                                                  *)
DropLast(s) == IF s = <<>> THEN <<>> ELSE SubSeq(s, 1, Len(s) - 1)

(* The text "({0}-{1})/{2} AS t_{0}": the column, what is subtracted, the  *)
(* divisor and the name of the result.                                     *)
NormExpr(x) == [col |-> x[1], sub |-> x[2], div |-> x[3], as |-> "t_" \o x[1]]

(* A make_norm_select that takes the bounds over the training and the      *)
(* testing summaries together.                                             *)
make_norm_select_all_rows(d, keys) ==
    IF ~HasColumns(d, "train_summary", Range(keys))
    THEN [err |-> "OperationalError", val |-> <<>>]
    ELSE LET dat  == d.tables["train_summary"].rows
                     \o (IF HasColumns(d, "test_summary", Range(keys))
                         THEN d.tables["test_summary"].rows ELSE <<>>)
             col(k) == {dat[i][k] : i \in DOMAIN dat}
         IN  IF dat = <<>>
             THEN [err |-> "ValueError", val |-> <<>>]
             ELSE LET mmin == [i \in DOMAIN keys |-> RMin(col(keys[i]))]
                      mmax == [i \in DOMAIN keys |-> RMax(col(keys[i]))]
                      zipped == [i \in DOMAIN keys |->
                                   <<keys[i], mmin[i], RSub(mmax[i], mmin[i])>>]
                      cut == DropLast(zipped)
                  IN  [err |-> "none",
                       val |-> [i \in DOMAIN cut |-> NormExpr(cut[i])]]

(* make_norm_select reads train_summary alone.  numpy's min over the       *)
(* array of no rows raises ValueError.                                     *)
make_norm_select(d, keys) ==
    IF ~HasColumns(d, "train_summary", Range(keys))
    THEN [err |-> "OperationalError", val |-> <<>>]
    ELSE LET dat  == d.tables["train_summary"].rows
             col(k) == {dat[i][k] : i \in DOMAIN dat}
         IN  IF dat = <<>>
             THEN [err |-> "ValueError", val |-> <<>>]
             ELSE LET mmin == [i \in DOMAIN keys |-> RMin(col(keys[i]))]
                      mmax == [i \in DOMAIN keys |-> RMax(col(keys[i]))]
                      zipped == [i \in DOMAIN keys |->
                                   <<keys[i], mmin[i], RSub(mmax[i], mmin[i])>>]
                      cut == DropLast(zipped)
                  IN  [err |-> "none",
                       val |-> [i \in DOMAIN cut |-> NormExpr(cut[i])]]

(* One row of "SELECT <select_cmd>, <key> FROM <source_table>".            *)
NormRow(r, columns, key) ==
    LET names == {columns[i][3].as : i \in DOMAIN columns}
        e(n)  == columns[CHOOSE i \in DOMAIN columns : columns[i][3].as = n][3]
    IN  [c \in names \cup {key} |->
            IF c = key THEN r[key]
            ELSE SqlDiv(SqlSub(r[e(c).col], e(c).sub), e(c).div)]

create_norm_table(d, source_table, table, columns, key) ==
    LET new_columns == [i \in DOMAIN columns |->
                           <<"t_" \o columns[i][1], columns[i][2],
                             columns[i][3]>>]
                       \o << <<key, "INTEGER">> >>
        d1 == create_table(d, new_columns, table)
        used == {columns[i][3].col : i \in DOMAIN columns} \cup {key}
    IN  IF ~HasColumns(d1, source_table, used)
        THEN [db |-> d1, err |-> "OperationalError"]
        ELSE LET src == d1.tables[source_table].rows
             IN  [db  |-> InsertRows(d1, table,
                             [i \in DOMAIN src |->
                                 NormRow(src[i], columns, key)]),
                  err |-> "none"]

(* norm_columns of make_normed_summaries.                                  *)
NormColumns(norm) ==
    LET z == Zip2(summary_columns, norm)
    IN  [i \in DOMAIN z |-> <<z[i][1][1], z[i][1][2], z[i][2]>>]

SummaryKeys == [i \in DOMAIN summary_columns |-> summary_columns[i][1]]

-----------------------------------------------------------------------------
(* The stores the summary and normalisation stages start from: no table    *)
(* at all, the raw tables of an ingestion, or those beside the summary and *)
(* normalised tables an earlier run made from an older data set.           *)

Sample(t, x, y, z, key, k) ==
    [c \in {"T", "X", "Y", "Z", key} |->
        CASE c = "T" -> t [] c = "X" -> x [] c = "Y" -> y [] c = "Z" -> z
          [] OTHER -> k]

TrainSamples ==
    { Sample(0, 1, 0, 0, "Device", 1), Sample(1, -2, 0, 0, "Device", 1),
      Sample(2, 3, 0, 0, "Device", 1), Sample(0, 0, 0, 1, "Device", 2),
      Sample(1, 0, 2, 1, "Device", 2) }

TestSamples ==
    { Sample(0, 0, 1, 0, "SequenceId", 7), Sample(0, 1, 0, 4, "SequenceId", 8) }

OldTrain ==
    << Sample(0, 1, 1, 0, "Device", 3), Sample(1, 0, 0, 2, "Device", 3),
       Sample(0, 2, 1, 0, "Device", 1) >>

OldTest == << Sample(0, 1, 1, 1, "SequenceId", 9) >>

RawCols(key) == <<"T", "X", "Y", "Z", key>>

Idx(table, key) == [table |-> table, key |-> key]

LoadedDb(train, test) ==
    [tables |->
        [n \in {"questions", "test", "train"} |->
            CASE n = "questions" ->
                    [cols |-> <<"QuestionId", "SequenceId", "QuizDevice">>,
                     rows |-> << [QuestionId |-> 1, SequenceId |-> 7,
                                  QuizDevice |-> 1] >>]
              [] n = "test" -> [cols |-> RawCols("SequenceId"), rows |-> test]
              [] n = "train" -> [cols |-> RawCols("Device"), rows |-> train]],
     indexes |-> { Idx("questions", "SequenceId"), Idx("questions", "QuizDevice"),
                   Idx("test", "SequenceId"), Idx("train", "Device") }]

(* What create_summary_tables and make_normed_summaries leave of a store.  *)
Derived(d) ==
    LET s1 == create_summary_table(d, "train", "train_summary",
                                   summary_columns, "Device").db
        s2 == create_summary_table(s1, "test", "test_summary",
                                   summary_columns, "SequenceId").db
        nc == NormColumns(make_norm_select(s2, SummaryKeys).val)
        s3 == create_norm_table(s2, "train_summary", "train_summary_norm",
                                nc, "Device").db
    IN  create_norm_table(s3, "test_summary", "test_summary_norm",
                          nc, "SequenceId").db

StaleDb(train, test) ==
    LET old == Derived(LoadedDb(OldTrain, OldTest))
    IN  PutTable(PutTable(old, "train", LoadedDb(train, test).tables["train"]),
                 "test", LoadedDb(train, test).tables["test"])

TrainTables == SeqsUpTo(TrainSamples, MaxTrainRows)

TestTables == SeqsUpTo(TestSamples, MaxTestRows)

NoFiles == <<>>

LogEntry(fn, arg, cmd) == [fn |-> fn, arg |-> arg, cmd |-> cmd]

Init ==
    /\ db \in {EmptyDb}
          \cup {LoadedDb(tr, te) : tr \in TrainTables, te \in TestTables}
          \cup {StaleDb(tr, te) : tr \in TrainTables, te \in TestTables}
    /\ csv = NoFiles
    /\ pc = "idle"
    /\ err = "none"
    /\ log = <<>>
    /\ norm_columns = <<>>

-----------------------------------------------------------------------------
(* The csv files.  A file is missing, or is its lines, each the fields     *)
(* csv.reader gives.  float() is the map FloatText from the texts it       *)
(* accepts to their values; every other text raises ValueError.            *)

FloatText ==
    [s \in {"0", "1", "2", "7", "-2", "1.0", " 3 ", "2e0"} |->
        CASE s = "0" -> 0 [] s = "1" -> 1 [] s = "2" -> 2 [] s = "7" -> 7
          [] s = "-2" -> -2 [] s = "1.0" -> 1 [] s = " 3 " -> 3
          [] s = "2e0" -> 2]

IsFloat(s) == s \in DOMAIN FloatText

FloatRow(line) == [i \in DOMAIN line |-> FloatText[line[i]]]

MissingFile == [exists |-> FALSE, lines |-> <<>>]

File(lines) == [exists |-> TRUE, lines |-> lines]

(* add_index: the index idx_<table>_<key> is dropped and created again.    *)
add_index(d, table, key) ==
    LET dropped == [d EXCEPT !.indexes = @ \ {Idx(table, key)}]
    IN  IF ~HasColumns(dropped, table, {key})
        THEN [db |-> dropped, err |-> "OperationalError"]
        ELSE [db  |-> [dropped EXCEPT !.indexes = @ \cup {Idx(table, key)}],
              err |-> "none"]

(* executemany in one transaction: a row with the wrong number of values   *)
(* raises ProgrammingError and the rows before it are rolled back.         *)
ExecuteMany(d, columns, table, floatdata) ==
    IF \E i \in DOMAIN floatdata : Len(floatdata[i]) # Len(columns)
    THEN [db |-> d, err |-> "ProgrammingError"]
    ELSE [db  |-> InsertRows(d, table,
                     [j \in DOMAIN floatdata |->
                         [c \in Range(ColNames(columns)) |->
                             floatdata[j][CHOOSE i \in DOMAIN columns :
                                             columns[i][1] = c]]]),
          err |-> "none"]

(* An insert_csv_table that commits every row as it is read: the rows      *)
(* before an unreadable one stay in the table.                             *)
insert_csv_table_row_by_row(d, file, columns, table) ==
    LET d1 == create_table(d, columns, table)
        data == IF file.lines = <<>> THEN <<>> ELSE Tail(file.lines)
        bad == {i \in DOMAIN data :
                   \/ \E f \in Range(data[i]) : ~IsFloat(f)
                   \/ Len(data[i]) # Len(columns)}
        good == IF bad = {} THEN data ELSE SubSeq(data, 1, MinOf(bad) - 1)
        r == ExecuteMany(d1, columns, table,
                         [j \in DOMAIN good |-> FloatRow(good[j])])
    IN  IF ~file.exists THEN [db |-> d1, err |-> "IOError"]
        ELSE IF file.lines = <<>> THEN [db |-> d1, err |-> "TypeError"]
        ELSE IF bad = {} THEN r
        ELSE [db |-> r.db, err |-> "ValueError"]

(* An insert_csv_table that takes the first line for data.                 *)
insert_csv_table_no_header(d, file, columns, table) ==
    LET d1 == create_table(d, columns, table)
        data == file.lines
    IN  IF ~file.exists THEN [db |-> d1, err |-> "IOError"]
        ELSE IF \E i \in DOMAIN data : \E f \in Range(data[i]) : ~IsFloat(f)
        THEN [db |-> d1, err |-> "ValueError"]
        ELSE ExecuteMany(d1, columns, table,
                         [j \in DOMAIN data |-> FloatRow(data[j])])

(* insert_csv_table: the table is rebuilt; the first line is dropped and   *)
(* every other line is converted before anything is inserted.  A file of   *)
(* no line at all leaves floatdata None, which executemany rejects.        *)
insert_csv_table(d, file, columns, table) ==
    LET d1 == create_table(d, columns, table)
        data == IF file.lines = <<>> THEN <<>> ELSE Tail(file.lines)
    IN  IF ~file.exists THEN [db |-> d1, err |-> "IOError"]
        ELSE IF \E i \in DOMAIN data : \E f \in Range(data[i]) : ~IsFloat(f)
        THEN [db |-> d1, err |-> "ValueError"]
        ELSE IF file.lines = <<>> THEN [db |-> d1, err |-> "TypeError"]
        ELSE ExecuteMany(d1, columns, table,
                         [j \in DOMAIN data |-> FloatRow(data[j])])

questions_cols ==
    << <<"QuestionId", "INTEGER">>, <<"SequenceId", "INTEGER">>,
       <<"QuizDevice", "INTEGER">> >>

test_cols ==
    << <<"T", "INTEGER">>, <<"X", "REAL">>, <<"Y", "REAL">>, <<"Z", "REAL">>,
       <<"SequenceId", "INTEGER">> >>

train_cols ==
    << <<"T", "INTEGER">>, <<"X", "REAL">>, <<"Y", "REAL">>, <<"Z", "REAL">>,
       <<"Device", "INTEGER">> >>

(* An exception that is swallowed: the next call is made all the same.     *)
AfterCall_continue(e, next) == next

(* No function catches an exception: an error ends the run, and otherwise  *)
(* the next call is made.                                                  *)
AfterCall(e, next) == IF e = "none" THEN next ELSE "idle"

-----------------------------------------------------------------------------
(* create_summary_tables: two calls of create_summary_table.  An error     *)
(* ends the run.                                                           *)

SummarizeTrain ==
    /\ pc = "idle"
    /\ LET r == create_summary_table(db, "train", "train_summary",
                                     summary_columns, "Device")
       IN  /\ db' = r.db
           /\ err' = r.err
           /\ pc' = AfterCall(r.err, "summary_test")
    /\ log' = << LogEntry("create_summary_table", "train_summary", <<>>) >>
    /\ norm_columns' = <<>>
    /\ UNCHANGED csv

SummarizeTest ==
    /\ pc = "summary_test"
    /\ LET r == create_summary_table(db, "test", "test_summary",
                                     summary_columns, "SequenceId")
       IN  /\ db' = r.db
           /\ err' = r.err
    /\ pc' = "idle"
    /\ log' = Append(log, LogEntry("create_summary_table", "test_summary", <<>>))
    /\ UNCHANGED <<csv, norm_columns>>

(* make_normed_summaries: make_norm_select, then two calls of              *)
(* create_norm_table with the same norm_columns.                           *)

MakeNormSelect ==
    /\ pc = "idle"
    /\ LET r == make_norm_select(db, SummaryKeys)
       IN  /\ err' = r.err
           /\ norm_columns' = NormColumns(r.val)
           /\ pc' = AfterCall(r.err, "norm_train")
    /\ log' = << LogEntry("make_norm_select", "train_summary", <<>>) >>
    /\ UNCHANGED <<db, csv>>

SelectCmd(columns) == [i \in DOMAIN columns |-> columns[i][3]]

NormalizeTrain ==
    /\ pc = "norm_train"
    /\ LET r == create_norm_table(db, "train_summary", "train_summary_norm",
                                  norm_columns, "Device")
       IN  /\ db' = r.db
           /\ err' = r.err
           /\ pc' = AfterCall(r.err, "norm_test")
    /\ log' = Append(log, LogEntry("create_norm_table", "train_summary_norm",
                                   SelectCmd(norm_columns)))
    /\ UNCHANGED <<csv, norm_columns>>

NormalizeTest ==
    /\ pc = "norm_test"
    /\ LET r == create_norm_table(db, "test_summary", "test_summary_norm",
                                  norm_columns, "SequenceId")
       IN  /\ db' = r.db
           /\ err' = r.err
    /\ pc' = "idle"
    /\ log' = Append(log, LogEntry("create_norm_table", "test_summary_norm",
                                   SelectCmd(norm_columns)))
    /\ UNCHANGED <<csv, norm_columns>>

Next ==
    \/ SummarizeTrain
    \/ SummarizeTest
    \/ MakeNormSelect
    \/ NormalizeTrain
    \/ NormalizeTest

Spec == Init /\ [][Next]_vars

-----------------------------------------------------------------------------
(* create_tables_from_csv: questions, test and train, each loaded and then *)
(* indexed.  The files are those of the data directory.                    *)

QuestionsHeader == <<"QuestionId", "SequenceId", "QuizDevice">>

QuestionsFiles ==
    { MissingFile,
      File(<<QuestionsHeader>>),
      File(<<QuestionsHeader, <<"1", "7", "1">> >>),
      File(<<QuestionsHeader, <<"1", "7", "1">>, <<"2", "x", "1">> >>),
      File(<<QuestionsHeader, <<"2", "7", "2e0">>, <<"1", "7", "1">> >>) }

TestHeader == <<"T", "X", "Y", "Z", "SequenceId">>

TestFiles ==
    { File(<<>>),
      File(<<TestHeader>>),
      File(<<TestHeader, <<"0", "1", "0", "0", "7">> >>),
      File(<<TestHeader, <<"0", "1", "", "0", "7">> >>) }

TrainHeaders == { <<"T", "X", "Y", "Z", "Device">>, <<"0", "1", "2", "0", "7">> }

TrainLines ==
    { <<"0", "1.0", "0", "0", "1">>, <<"1", "-2", "0", " 3 ", "2">>,
      <<"2", "1", "abc", "0", "1">>, <<"2", "1", "0", "1">> }

TrainFiles ==
    {MissingFile, File(<<>>)}
    \cup {File(<<h>> \o body) :
             h \in TrainHeaders, body \in SeqsUpTo(TrainLines, MaxCsvRows)}

IndexName(table, key) == "idx_" \o table \o "_" \o key

InitIngest ==
    /\ db \in {EmptyDb, Derived(LoadedDb(OldTrain, OldTest))}
    /\ csv \in [questions : QuestionsFiles, test : TestFiles, train : TrainFiles]
    /\ pc = "idle"
    /\ err = "none"
    /\ log = <<>>
    /\ norm_columns = <<>>

LoadQuestions ==
    /\ pc = "idle"
    /\ LET r == insert_csv_table(db, csv.questions, questions_cols, "questions")
       IN  /\ db' = r.db
           /\ err' = r.err
           /\ pc' = AfterCall(r.err, "index_questions_SequenceId")
    /\ log' = << LogEntry("insert_csv_table", "questions", <<>>) >>
    /\ UNCHANGED <<csv, norm_columns>>

IndexQuestionsSequenceId ==
    /\ pc = "index_questions_SequenceId"
    /\ LET r == add_index(db, "questions", "SequenceId")
       IN  /\ db' = r.db
           /\ err' = r.err
           /\ pc' = AfterCall(r.err, "index_questions_QuizDevice")
    /\ log' = Append(log, LogEntry("add_index",
                                   IndexName("questions", "SequenceId"), <<>>))
    /\ UNCHANGED <<csv, norm_columns>>

IndexQuestionsQuizDevice ==
    /\ pc = "index_questions_QuizDevice"
    /\ LET r == add_index(db, "questions", "QuizDevice")
       IN  /\ db' = r.db
           /\ err' = r.err
           /\ pc' = AfterCall(r.err, "load_test")
    /\ log' = Append(log, LogEntry("add_index",
                                   IndexName("questions", "QuizDevice"), <<>>))
    /\ UNCHANGED <<csv, norm_columns>>

LoadTest ==
    /\ pc = "load_test"
    /\ LET r == insert_csv_table(db, csv.test, test_cols, "test")
       IN  /\ db' = r.db
           /\ err' = r.err
           /\ pc' = AfterCall(r.err, "index_test_SequenceId")
    /\ log' = Append(log, LogEntry("insert_csv_table", "test", <<>>))
    /\ UNCHANGED <<csv, norm_columns>>

IndexTestSequenceId ==
    /\ pc = "index_test_SequenceId"
    /\ LET r == add_index(db, "test", "SequenceId")
       IN  /\ db' = r.db
           /\ err' = r.err
           /\ pc' = AfterCall(r.err, "load_train")
    /\ log' = Append(log, LogEntry("add_index",
                                   IndexName("test", "SequenceId"), <<>>))
    /\ UNCHANGED <<csv, norm_columns>>

LoadTrain ==
    /\ pc = "load_train"
    /\ LET r == insert_csv_table(db, csv.train, train_cols, "train")
       IN  /\ db' = r.db
           /\ err' = r.err
           /\ pc' = AfterCall(r.err, "index_train_Device")
    /\ log' = Append(log, LogEntry("insert_csv_table", "train", <<>>))
    /\ UNCHANGED <<csv, norm_columns>>

IndexTrainDevice ==
    /\ pc = "index_train_Device"
    /\ LET r == add_index(db, "train", "Device")
       IN  /\ db' = r.db
           /\ err' = r.err
    /\ pc' = "idle"
    /\ log' = Append(log, LogEntry("add_index",
                                   IndexName("train", "Device"), <<>>))
    /\ UNCHANGED <<csv, norm_columns>>

NextIngest ==
    \/ LoadQuestions
    \/ IndexQuestionsSequenceId
    \/ IndexQuestionsQuizDevice
    \/ LoadTest
    \/ IndexTestSequenceId
    \/ LoadTrain
    \/ IndexTrainDevice

SpecIngest == InitIngest /\ [][NextIngest]_vars

-----------------------------------------------------------------------------
(* What the log of the running (or last) top-level call tells: a call has  *)
(* completed when it is logged and is not the call an error ended.         *)

Ran(fn, arg) == \E i \in DOMAIN log : log[i].fn = fn /\ log[i].arg = arg

Completed(fn, arg) ==
    \E i \in DOMAIN log :
        /\ log[i].fn = fn
        /\ log[i].arg = arg
        /\ (i < Len(log) \/ err = "none")

Rows(table) == db.tables[table].rows

SummaryJobs ==
    { <<"train", "train_summary", "Device">>,
      <<"test", "test_summary", "SequenceId">> }

NormJobs ==
    { <<"train_summary", "train_summary_norm", "Device">>,
      <<"test_summary", "test_summary_norm", "SequenceId">> }

StatNames == {"range", "min", "max", "avg", "variance"}

-----------------------------------------------------------------------------
(* C1: after create_summary_table(source, dest, key) completes, dest holds *)
(* exactly one row for each distinct key value of source and no row for    *)
(* any other key value, whatever dest held before the call.                *)
C1_OneRowPerKey ==
    \A j \in SummaryJobs :
        Completed("create_summary_table", j[2]) =>
            LET src  == Rows(j[1])
                dst  == Rows(j[2])
                keys == {src[i][j[3]] : i \in DOMAIN src}
            IN  /\ HasTable(db, j[2])
                /\ {dst[i][j[3]] : i \in DOMAIN dst} = keys
                /\ \A k \in keys :
                       Cardinality({i \in DOMAIN dst : dst[i][j[3]] = k}) = 1

(* A summary of three training samples of two devices has been made in a   *)
(* store whose tables of an older data set held a row for device 3.        *)
C1_Witness ==
    /\ Completed("create_summary_table", "train_summary")
    /\ Len(Rows("train")) = 3
    /\ Cardinality({Rows("train")[i].Device : i \in 1..3}) = 2
    /\ HasTable(db, "train_summary_norm")
    /\ \E i \in DOMAIN Rows("train_summary_norm") :
           Rows("train_summary_norm")[i].Device = 3

-----------------------------------------------------------------------------
(* C10: every summary row holds min, max, range = max - min, the mean and  *)
(* mean(d*d) - mean(d)*mean(d) of d = X*X + Y*Y + Z*Z over exactly the     *)
(* samples of its group.                                                   *)
C10_Statistics ==
    \A j \in SummaryJobs :
        Completed("create_summary_table", j[2]) =>
            LET src == Rows(j[1])
                dst == Rows(j[2])
                d(i) == src[i].X * src[i].X + src[i].Y * src[i].Y
                        + src[i].Z * src[i].Z
            IN  \A r \in Range(dst) :
                    LET g  == {i \in DOMAIN src : src[i][j[3]] = r[j[3]]}
                        n  == Cardinality(g)
                        gs == SortedSeq(g)
                        s1 == SumSeq([i \in DOMAIN gs |-> d(gs[i])])
                        s2 == SumSeq([i \in DOMAIN gs |-> d(gs[i]) * d(gs[i])])
                    IN  /\ n > 0
                        /\ \E i \in g : r.min = <<d(i), 1>>
                        /\ \A i \in g : r.min[1] <= d(i) * r.min[2]
                        /\ \E i \in g : r.max = <<d(i), 1>>
                        /\ \A i \in g : d(i) * r.max[2] <= r.max[1]
                        /\ r.range = <<r.max[1] - r.min[1], 1>>
                        /\ r.avg[2] > 0
                        /\ r.avg[1] * n = s1 * r.avg[2]
                        /\ r.variance[2] > 0
                        /\ (r.variance[1] * r.avg[2] * r.avg[2]
                            + r.avg[1] * r.avg[1] * r.variance[2]) * n
                           = s2 * r.variance[2] * r.avg[2] * r.avg[2]

(* The group d = 1, 4, 9: range 8, min 1, max 9, avg 14/3, variance 98/9.  *)
C10_Witness ==
    /\ Completed("create_summary_table", "train_summary")
    /\ \E r \in Range(Rows("train_summary")) :
           /\ r.Device = 1
           /\ r.range = <<8, 1>> /\ r.min = <<1, 1>> /\ r.max = <<9, 1>>
           /\ r.avg = <<14, 3>> /\ r.variance = <<98, 9>>
           /\ Cardinality({i \in DOMAIN Rows("train") :
                              Rows("train")[i].Device = 1}) = 3

-----------------------------------------------------------------------------
(* The bounds of a statistic over the training summaries.                  *)

ColumnMin(c) ==
    RMin({Rows("train_summary")[i][c] : i \in DOMAIN Rows("train_summary")})

ColumnMax(c) ==
    RMax({Rows("train_summary")[i][c] : i \in DOMAIN Rows("train_summary")})

TName(c) == "t_" \o c

(* make_norm_select has returned in the running (or last) call of          *)
(* make_normed_summaries; train_summary and test_summary are since then    *)
(* as it read them.                                                        *)
NormSelectDone == Completed("make_norm_select", "train_summary")

(* The summaries of every testing table of the model, and of the older     *)
(* one.                                                                    *)
AltTestSummaries ==
    { create_summary_table(LoadedDb(<<>>, te), "test", "test_summary",
                           summary_columns, "SequenceId").db
          .tables["test_summary"] : te \in TestTables \cup {OldTest} }

(* C2: the coefficients depend on train_summary alone: with any other      *)
(* test_summary in the store make_norm_select gives the same (min,         *)
(* max - min) per column and the same train_summary_norm is written; and   *)
(* within one run both tables are written with the same coefficients.      *)
C2_BoundsFromTrainingOnly ==
    /\ NormSelectDone =>
           \A alt \in AltTestSummaries :
               LET d2 == PutTable(db, "test_summary", alt)
                   nc == NormColumns(make_norm_select(d2, SummaryKeys).val)
               IN  /\ nc = norm_columns
                   /\ Completed("create_norm_table", "train_summary_norm") =>
                          create_norm_table(d2, "train_summary",
                              "train_summary_norm", nc, "Device")
                              .db.tables["train_summary_norm"]
                          = db.tables["train_summary_norm"]
    /\ \A i \in DOMAIN log :
           log[i].fn = "create_norm_table" =>
               /\ log[i].cmd = SelectCmd(norm_columns)
               /\ \A k \in DOMAIN log :
                      log[k].fn = "create_norm_table" => log[k].cmd = log[i].cmd

(* Both normalised tables are written, from two training groups, and a     *)
(* testing group lies above the training maximum.                          *)
C2_Witness ==
    /\ Completed("create_norm_table", "test_summary_norm")
    /\ Len(Rows("train_summary")) = 2
    /\ ColumnMin("max") # ColumnMax("max")
    /\ \E r \in Range(Rows("test_summary_norm")) :
           r.t_max # NULL /\ ~RLe(r.t_max, <<1, 1>>)

-----------------------------------------------------------------------------
(* C3: every row of a normalised table keeps its group key and has, for    *)
(* each of the five statistics c, a column t_c holding                     *)
(* (c - columnMin[c]) / (columnMax[c] - columnMin[c]) (where that quotient *)
(* is defined).                                                            *)
C3_EveryStatisticNormalised ==
    \A j \in NormJobs :
        Completed("create_norm_table", j[2]) =>
            LET src == Rows(j[1])
                dst == Rows(j[2])
            IN  /\ Len(dst) = Len(src)
                /\ \A i \in DOMAIN src : \A c \in StatNames :
                       /\ dst[i][j[3]] = src[i][j[3]]
                       /\ TName(c) \in DOMAIN dst[i]
                       /\ ColumnMax(c) # ColumnMin(c) =>
                              dst[i][TName(c)] =
                                  SqlDiv(RSub(src[i][c], ColumnMin(c)),
                                         RSub(ColumnMax(c), ColumnMin(c)))

(* What the code does instead: the first four statistics are normalised,   *)
(* and there is no column t_variance.                                      *)
C3_FirstFourNormalised ==
    \A j \in NormJobs :
        Completed("create_norm_table", j[2]) =>
            LET src == Rows(j[1])
                dst == Rows(j[2])
            IN  /\ Len(dst) = Len(src)
                /\ \A i \in DOMAIN src :
                       /\ dst[i][j[3]] = src[i][j[3]]
                       /\ TName("variance") \notin DOMAIN dst[i]
                       /\ \A c \in StatNames \ {"variance"} :
                              /\ TName(c) \in DOMAIN dst[i]
                              /\ dst[i][TName(c)] =
                                     SqlDiv(RSub(src[i][c], ColumnMin(c)),
                                            RSub(ColumnMax(c), ColumnMin(c)))

-----------------------------------------------------------------------------
(* C4: when a statistic has columnMax = columnMin over the training        *)
(* summaries, normalisation fails with DegenerateRangeError or writes 0    *)
(* for that column in every row, and nothing else.                         *)
C4_DegeneratePolicy ==
    (NormSelectDone \/ (Ran("make_norm_select", "train_summary")
                        /\ HasTable(db, "train_summary")
                        /\ Rows("train_summary") # <<>>)) =>
        \A c \in StatNames :
            ColumnMin(c) = ColumnMax(c) =>
                \/ err = "DegenerateRangeError"
                \/ \A j \in NormJobs :
                       Completed("create_norm_table", j[2]) =>
                           \A r \in Range(Rows(j[2])) :
                               TName(c) \in DOMAIN r => r[TName(c)] = <<0, 1>>

-----------------------------------------------------------------------------
(* C6: every value written to train_summary_norm lies in [0,1]; the        *)
(* column minimum maps to 0 and the column maximum to 1.                   *)
C6_TrainNormInUnitInterval ==
    Completed("create_norm_table", "train_summary_norm") =>
        LET src == Rows("train_summary")
            dst == Rows("train_summary_norm")
        IN  \A i \in DOMAIN dst : \A c \in StatNames :
                TName(c) \in DOMAIN dst[i] =>
                    LET v == dst[i][TName(c)]
                    IN  /\ v # NULL
                        /\ RLe(<<0, 1>>, v)
                        /\ RLe(v, <<1, 1>>)
                        /\ src[i][c] = ColumnMin(c) => v = <<0, 1>>
                        /\ src[i][c] = ColumnMax(c) => v = <<1, 1>>

(* What the code does: the same, for the columns whose training maximum    *)
(* differs from the minimum; the others are NULL in every row.             *)
C6_NonDegenerateInUnitInterval ==
    Completed("create_norm_table", "train_summary_norm") =>
        LET src == Rows("train_summary")
            dst == Rows("train_summary_norm")
        IN  \A i \in DOMAIN dst : \A c \in StatNames :
                TName(c) \in DOMAIN dst[i] =>
                    LET v == dst[i][TName(c)]
                    IN  IF ColumnMin(c) = ColumnMax(c) THEN v = NULL
                        ELSE /\ v # NULL
                             /\ RLe(<<0, 1>>, v)
                             /\ RLe(v, <<1, 1>>)
                             /\ src[i][c] = ColumnMin(c) => v = <<0, 1>>
                             /\ src[i][c] = ColumnMax(c) => v = <<1, 1>>

-----------------------------------------------------------------------------
(* The calls of create_tables_from_csv, in the order of the source.        *)

IngestSteps ==
    << [fn |-> "insert_csv_table", arg |-> "questions", table |-> "questions",
        key |-> ""],
       [fn |-> "add_index", arg |-> "idx_questions_SequenceId",
        table |-> "questions", key |-> "SequenceId"],
       [fn |-> "add_index", arg |-> "idx_questions_QuizDevice",
        table |-> "questions", key |-> "QuizDevice"],
       [fn |-> "insert_csv_table", arg |-> "test", table |-> "test", key |-> ""],
       [fn |-> "add_index", arg |-> "idx_test_SequenceId", table |-> "test",
        key |-> "SequenceId"],
       [fn |-> "insert_csv_table", arg |-> "train", table |-> "train",
        key |-> ""],
       [fn |-> "add_index", arg |-> "idx_train_Device", table |-> "train",
        key |-> "Device"] >>

ColumnsOf(table) ==
    CASE table = "questions" -> questions_cols
      [] table = "test" -> test_cols
      [] table = "train" -> train_cols

RawTables == {"questions", "test", "train"}

DataLines(file) == IF file.lines = <<>> THEN <<>> ELSE Tail(file.lines)

(* A header line followed by lines of as many numeric fields as the table  *)
(* has columns.                                                            *)
ValidCsv(file, columns) ==
    /\ file.exists
    /\ file.lines # <<>>
    /\ \A i \in DOMAIN DataLines(file) :
           /\ Len(DataLines(file)[i]) = Len(columns)
           /\ \A f \in Range(DataLines(file)[i]) : IsFloat(f)

HasBadField(file) ==
    /\ file.exists
    /\ \E i \in DOMAIN DataLines(file) :
           \E f \in Range(DataLines(file)[i]) : ~IsFloat(f)

(* The table holds the data lines of its file, field by field.             *)
HoldsFile(table) ==
    LET data == DataLines(csv[table])
        cols == ColumnsOf(table)
    IN  /\ HasTable(db, table)
        /\ Len(Rows(table)) = Len(data)
        /\ \A j \in DOMAIN data : \A i \in DOMAIN cols :
               Rows(table)[j][cols[i][1]] = FloatText[data[j][i]]

-----------------------------------------------------------------------------
(* C7: a data row with a field that is no number makes insert_csv_table    *)
(* fail as a whole; afterwards the table is absent or has no row: neither  *)
(* the rows before the bad one nor the rows it held before the call.       *)
C7_FailedLoadInsertsNothing ==
    \A t \in RawTables :
        (Ran("insert_csv_table", t) /\ HasBadField(csv[t])) =>
            /\ ~Completed("insert_csv_table", t)
            /\ err # "none"
            /\ (~HasTable(db, t) \/ Rows(t) = <<>>)

(* The load of questions has failed on the second data row of its file,    *)
(* after a readable first one, in a store that held questions before.      *)
C7_Witness ==
    /\ Ran("insert_csv_table", "questions")
    /\ err = "ValueError"
    /\ Len(csv.questions.lines) = 3
    /\ \A f \in Range(csv.questions.lines[2]) : IsFloat(f)
    /\ HasTable(db, "train_summary")
    /\ HasTable(db, "questions")

-----------------------------------------------------------------------------
(* C8: after insert_csv_table of a valid file of a header and N data rows  *)
(* the table holds exactly N rows: the first line is never loaded, the     *)
(* rows held before are gone, and column i of row j is the number field i  *)
(* of data row j denotes.                                                  *)
C8_LoadedRowsAreParsedFields ==
    \A t \in RawTables :
        (Ran("insert_csv_table", t) /\ ValidCsv(csv[t], ColumnsOf(t))) =>
            /\ Completed("insert_csv_table", t)
            /\ HoldsFile(t)
            /\ Len(Rows(t)) = Len(csv[t].lines) - 1

(* Two data rows under a header of numbers have been loaded into train, in *)
(* a store that held an older train table.                                 *)
C8_Witness ==
    /\ Completed("insert_csv_table", "train")
    /\ Len(csv.train.lines) = 3
    /\ \A f \in Range(csv.train.lines[1]) : IsFloat(f)
    /\ Len(Rows("train")) = 2
    /\ Rows("train")[1].X = 1 /\ csv.train.lines[2][2] = "1.0"
    /\ HasTable(db, "train_summary")

-----------------------------------------------------------------------------
(* C9: create_tables_from_csv makes its calls in the order questions,      *)
(* test, train, each load followed by its index builds; after a call that  *)
(* fails no further call is made, and what the earlier calls committed     *)
(* stays in the store.                                                     *)
StepSucceeds(i) ==
    IngestSteps[i].fn = "insert_csv_table" =>
        ValidCsv(csv[IngestSteps[i].table], ColumnsOf(IngestSteps[i].table))

StepCommitted(i) ==
    IF IngestSteps[i].fn = "insert_csv_table"
    THEN HoldsFile(IngestSteps[i].table)
    ELSE Idx(IngestSteps[i].table, IngestSteps[i].key) \in db.indexes

C9_IngestInOrderNoRollback ==
    /\ Len(log) <= Len(IngestSteps)
    /\ \A i \in DOMAIN log :
           /\ log[i].fn = IngestSteps[i].fn
           /\ log[i].arg = IngestSteps[i].arg
    /\ \A i \in DOMAIN log : i < Len(log) => StepSucceeds(i)
    /\ err # "none" => pc = "idle" /\ log # <<>> /\ ~StepSucceeds(Len(log))
    /\ \A i \in DOMAIN log : (i < Len(log) \/ err = "none") => StepCommitted(i)
    /\ (pc = "idle" /\ err = "none" /\ log # <<>>) => Len(log) = Len(IngestSteps)

(* The load of train, the sixth call, has failed; questions and test hold  *)
(* their rows and their indexes.                                           *)
C9_Witness ==
    /\ Len(log) = 6
    /\ err # "none"
    /\ pc = "idle"
    /\ Len(Rows("questions")) = 2
    /\ Len(Rows("test")) = 1
    /\ {Idx("questions", "SequenceId"), Idx("questions", "QuizDevice"),
        Idx("test", "SequenceId")} \subseteq db.indexes

-----------------------------------------------------------------------------
(* C5: every stage run on an empty source (a csv file of a header alone,   *)
(* an empty raw table, empty summary tables) completes without an error    *)
(* and leaves an existing, empty destination table.                        *)
C5_EmptySourceNoError ==
    /\ \A t \in RawTables :
           (Ran("insert_csv_table", t) /\ csv[t].exists
            /\ Len(csv[t].lines) = 1) =>
               /\ Completed("insert_csv_table", t)
               /\ HasTable(db, t) /\ Rows(t) = <<>>
    /\ \A j \in SummaryJobs :
           (Ran("create_summary_table", j[2]) /\ HasTable(db, j[1])
            /\ Rows(j[1]) = <<>>) =>
               /\ Completed("create_summary_table", j[2])
               /\ HasTable(db, j[2]) /\ Rows(j[2]) = <<>>
    /\ (Ran("make_norm_select", "train_summary")
        /\ HasTable(db, "train_summary") /\ Rows("train_summary") = <<>>) =>
           /\ NormSelectDone
           /\ \A j \in NormJobs :
                  (pc = "idle" /\ HasTable(db, j[1]) /\ Rows(j[1]) = <<>>) =>
                      HasTable(db, j[2]) /\ Rows(j[2]) = <<>>

(* What the code does at the first two stages: the load of a file of a     *)
(* header alone and the summary of an empty raw table complete and leave   *)
(* an empty table.                                                         *)
C5_LoadAndSummaryOfEmptySource ==
    /\ \A t \in RawTables :
           (Ran("insert_csv_table", t) /\ csv[t].exists
            /\ Len(csv[t].lines) = 1) =>
               /\ Completed("insert_csv_table", t)
               /\ HasTable(db, t) /\ Rows(t) = <<>>
    /\ \A j \in SummaryJobs :
           (Ran("create_summary_table", j[2]) /\ HasTable(db, j[1])
            /\ Rows(j[1]) = <<>>) =>
               /\ Completed("create_summary_table", j[2])
               /\ HasTable(db, j[2]) /\ Rows(j[2]) = <<>>

=============================================================================
